---------------------------- MODULE Spec2Model ----------------------------
(***************************************************************************)
(* Model of react/features/app/components/AbstractApp.js: the bootstrap    *)
(* and lifecycle controller of the application.                           *)
(*                                                                         *)
(* Execution model.  JavaScript is single-threaded: a host call (a React   *)
(* lifecycle hook, a call of _navigate, the settling of the storage        *)
(* promise) runs to completion, and promise reactions run afterwards as    *)
(* microtasks, in FIFO order, the queue being drained before the next      *)
(* host task starts.  Each action below is one host call or one microtask. *)
(* React calls componentWillMount synchronously after the constructor, and *)
(* componentWillReceiveProps / componentWillUnmount only after that.       *)
(*                                                                         *)
(* setState is an assignment to this.state.  Called from a promise         *)
(* reaction it is applied at once (no React batch is open in a microtask); *)
(* called from _navigate it is applied at once or, when the caller runs    *)
(* inside a React batch, queued and applied when the batch is flushed      *)
(* (the comment at AbstractApp.js:363-367).                                *)
(***************************************************************************)
EXTENDS Integers, Sequences, FiniteSets

\* Bound of the model: the componentWillReceiveProps and _navigate calls the
\* host makes in one lifetime of the component, taken together.
MaxCalls == 2

VARIABLES
    gate,            \* window.localStorage._initializing: absent | pending | resolved | rejected
    caught,          \* the promise _initStorage().catch(...): pending | fulfilled | rejected
    init,            \* this._init: pending | fulfilled | rejected
    initReactions,   \* reactions registered on this._init while it is pending
    microtasks,      \* the microtask queue (promise reaction jobs), FIFO
    draining,        \* TRUE while the microtask queue is being drained
    state,           \* this.state: appAsyncInitialized, route, store
    props,           \* this.props
    serverURL,       \* store.getState()['features/base/settings'].serverURL
    windowLocation,  \* what getWindowLocation() returns
    created,         \* number of _createStore() calls (stores are numbered 1, 2, ...)
    dispatched,      \* actions dispatched on the store, in order
    errors,          \* exceptions thrown / promise rejections left unhandled
    pendingUpdates,  \* setState({ route }, resolve) calls queued in an open React batch
    navs,            \* the _navigate calls made so far and the state of their promises
    redirects,       \* assignments to window.location.href, in order
    willMount,       \* componentWillMount has been called
    unmounted,       \* componentWillUnmount has been called
    calls            \* the componentWillReceiveProps calls made so far

vars == <<gate, caught, init, initReactions, microtasks, draining, state, props,
          serverURL, windowLocation, created, dispatched, errors,
          pendingUpdates, navs, redirects, willMount, unmounted, calls>>

-----------------------------------------------------------------------------
\* Values

\* JavaScript undefined, for string-valued expressions.
Undefined == "<undefined>"

\* A falsy string-valued expression: undefined or the empty string.
Falsy(s) == s \in {Undefined, ""}

\* a || b for string-valued expressions.
Or(a, b) == IF Falsy(a) THEN b ELSE a

DEFAULT_URL == "https://meet.jit.si"

\* The url prop: absent, a string, or a structured descriptor (an object).
NoURL == [tag |-> "absent", v |-> ""]
StrURL(s) == [tag |-> "string", v |-> s]
ObjURL(s) == [tag |-> "object", v |-> s]

Props(url, timestamp, defaultURL) ==
    [url |-> url, timestamp |-> timestamp, defaultURL |-> defaultURL]

\* The props the host passes: the same URL as a string and as a descriptor,
\* another URL, the same URL under another timestamp, no URL, and no URL
\* with a defaultURL.
PropsSet ==
    { Props(StrURL("A"), "t0", Undefined),
      Props(ObjURL("A"), "t0", Undefined),
      Props(StrURL("A"), "t1", Undefined),
      Props(StrURL("B"), "t0", Undefined),
      Props(NoURL, "t0", Undefined),
      Props(NoURL, "t0", "D") }

\* getWindowLocation(): undefined, or a Location whose toString() is the string.
NoLocation == [present |-> FALSE, href |-> ""]
Location(s) == [present |-> TRUE, href |-> s]
WindowLocations == {NoLocation, Location(""), Location("L")}

ServerURLs == {Undefined, "S"}

\* Routes: {} (the initial route), { component }, { href }.
EmptyRoute == [tag |-> "empty", v |-> ""]
ComponentRoute(c) == [tag |-> "component", v |-> c]
HrefRoute(h) == [tag |-> "href", v |-> h]
Routes == {EmptyRoute, ComponentRoute("c1"), ComponentRoute("c2"),
           HrefRoute("H"), HrefRoute("")}

\* this.state.store: undefined, or the n-th store _createStore() made.
NoStore == 0

\* toURLString of base/util: undefined for an absent value, the string itself
\* for a string, the descriptor's string form for an object.
toURLString(u) ==
    CASE u.tag = "absent" -> Undefined
      [] u.tag = "string" -> u.v
      [] u.tag = "object" -> u.v

\* Fault: routes compared by identity; the argument of a call is a new object.
isEqualByIdentity(a, b) == FALSE

\* lodash isEqual on routes: deep structural equality.
isEqual(a, b) == a.tag = b.tag /\ a.v = b.v

-----------------------------------------------------------------------------
\* Promise reaction jobs

NoProps == Props(NoURL, "t0", Undefined)

Job(kind, id, prev, next) == [kind |-> kind, id |-> id, prev |-> prev, next |-> next]
CatchJob == Job("catch", 0, NoProps, NoProps)
CreateJob == Job("create", 0, NoProps, NoProps)
MountJob == Job("mount", 0, NoProps, NoProps)
PropsJob(id, prev, next) == Job("props", id, prev, next)

\* Fault: the reaction is queued at once, as on a promise that has settled,
\* whatever the state of _init.
ThenWithoutWaiting(job) ==
    /\ microtasks' = Append(microtasks, job)
    /\ UNCHANGED initReactions

\* Fault: the reaction is put in front of the reactions registered before it.
ThenInFront(job) ==
    IF init = "pending"
    THEN /\ initReactions' = <<job>> \o initReactions
         /\ UNCHANGED microtasks
    ELSE /\ microtasks' = <<job>> \o microtasks
         /\ UNCHANGED initReactions

\* this._init.then(job): queued as a microtask when _init has settled,
\* kept with the promise's reactions otherwise.
ThenOnInit(job) ==
    IF init = "pending"
    THEN /\ initReactions' = Append(initReactions, job)
         /\ UNCHANGED microtasks
    ELSE /\ microtasks' = Append(microtasks, job)
         /\ UNCHANGED initReactions

-----------------------------------------------------------------------------
\* Sequential code with exceptions: an effect record is threaded through the
\* statements of a handler; once thrown is set the remaining statements are
\* skipped, as after a JavaScript throw.

Eff(st, log, errs, n) ==
    [state |-> st, dispatched |-> log, errors |-> errs, created |-> n, thrown |-> FALSE]

\* An exception of the given kind, thrown at the given place.
Throw(e, kind, at) ==
    [e EXCEPT !.errors = Append(@, [kind |-> kind, at |-> at]), !.thrown = TRUE]

Action(type, url, src) == [type |-> type, url |-> url, src |-> src]

\* Fault: the dispatch is skipped without an error when the store is undefined.
StoreDispatchIfAny(e, action) ==
    IF e.thrown \/ e.state.store = NoStore THEN e
    ELSE [e EXCEPT !.dispatched =
            Append(@, [type |-> action.type, url |-> action.url, src |-> action.src,
                       ready |-> e.state.appAsyncInitialized])]

\* this.state.store.dispatch(action): a TypeError when the store is undefined.
\* Each log entry also records this.state.appAsyncInitialized at that moment.
StoreDispatch(e, action) ==
    IF e.thrown THEN e
    ELSE IF e.state.store = NoStore THEN Throw(e, "TypeError", action.type)
    ELSE [e EXCEPT !.dispatched =
            Append(@, [type |-> action.type, url |-> action.url, src |-> action.src,
                       ready |-> e.state.appAsyncInitialized])]

\* this.setState(patch) applied at once.
SetAsyncInitialized(e) ==
    IF e.thrown THEN e ELSE [e EXCEPT !.state.appAsyncInitialized = TRUE]

SetStore(e, s) ==
    IF e.thrown THEN e ELSE [e EXCEPT !.state.store = s]

-----------------------------------------------------------------------------
\* _initStorage, _createStore, _getDefaultURL, _openURL

\* Fault: _initStorage does not wait for localStorage._initializing.
_initStorageWithoutGate(g) == "fulfilled"

\* The state of the promise _initStorage() returns.
_initStorage(g) ==
    CASE g = "absent" -> "fulfilled"
      [] g = "pending" -> "pending"
      [] g = "resolved" -> "fulfilled"
      [] g = "rejected" -> "rejected"

\* Fault: no rejection handler, so that a rejection passes through.
CatchPassesRejection(p) == p

\* The state of _initStorage().catch(() => {}) once _initStorage() has settled
\* as p: a fulfilment passes through, a rejection is handled and fulfils too.
CatchSettle(p) == "fulfilled"

\* _createStore() makes a new store on each call: the (n+1)-th after n calls.
_createStore(n) == n + 1

\* Fault: the defaultURL prop is consulted before the environment's location.
_getDefaultURLPropFirst(p, loc, server) ==
    IF ~Falsy(p.defaultURL) THEN p.defaultURL
    ELSE IF loc.present /\ ~Falsy(loc.href) THEN loc.href
    ELSE Or(server, DEFAULT_URL)

_getDefaultURL(p, loc, server) ==
    IF loc.present /\ ~Falsy(loc.href)
    THEN loc.href
    ELSE Or(p.defaultURL, Or(server, DEFAULT_URL))

\* _openURL(url): the url argument is already a string (or undefined), and
\* toURLString maps a string to itself.
_openURL(e, url, src) ==
    StoreDispatch(e, Action("appNavigate", toURLString(StrURL(url)), src))

-----------------------------------------------------------------------------
\* The reactions registered on the promises

\* The .then callback of the constructor: setState({ store: _createStore() }).
CreateCallback(e) ==
    LET s == _createStore(e.created)
    IN  SetStore([e EXCEPT !.created = s], s)

\* Fault: the initial URL is opened before appAsyncInitialized is set.
MountCallbackOpensFirst(e, p) ==
    LET noStore == e.state.store = NoStore
        e1 == IF noStore THEN Throw(e, "TypeError", "componentWillMount")
              ELSE StoreDispatch(e, Action("appWillMount", Undefined, 0))
        e2 == IF e1.thrown THEN e1
              ELSE _openURL(e1, Or(toURLString(p.url),
                                  _getDefaultURL(p, windowLocation, serverURL)), 0)
    IN  SetAsyncInitialized(e2)

\* Fault: the default URL is preferred to the url prop.
MountCallbackDefaultFirst(e, p) ==
    LET noStore == e.state.store = NoStore
        e1 == IF noStore THEN Throw(e, "TypeError", "componentWillMount")
              ELSE StoreDispatch(e, Action("appWillMount", Undefined, 0))
        e2 == SetAsyncInitialized(e1)
    IN  IF e2.thrown THEN e2
        ELSE _openURL(e2, Or(_getDefaultURL(p, windowLocation, serverURL),
                            toURLString(p.url)), 0)

\* Fault: appAsyncInitialized is set before appWillMount is dispatched.
MountCallbackSetsFlagFirst(e, p) ==
    LET noStore == e.state.store = NoStore
        e1 == IF noStore THEN Throw(e, "TypeError", "componentWillMount")
              ELSE SetAsyncInitialized(e)
        e2 == StoreDispatch(e1, Action("appWillMount", Undefined, 0))
    IN  IF e2.thrown THEN e2
        ELSE _openURL(e2, Or(toURLString(p.url),
                            _getDefaultURL(p, windowLocation, serverURL)), 0)

\* Fault: componentWillMount makes a store of its own.
MountCallbackCreatesStore(e, p) ==
    LET e0 == CreateCallback(e)
        e1 == StoreDispatch(e0, Action("appWillMount", Undefined, 0))
        e2 == SetAsyncInitialized(e1)
    IN  IF e2.thrown THEN e2
        ELSE _openURL(e2, Or(toURLString(p.url),
                            _getDefaultURL(p, windowLocation, serverURL)), 0)

\* The callback componentWillMount registers on _init.
MountCallback(e, p) ==
    LET noStore == e.state.store = NoStore
        e1 == IF noStore THEN Throw(e, "TypeError", "componentWillMount")
              ELSE StoreDispatch(e, Action("appWillMount", Undefined, 0))
        e2 == SetAsyncInitialized(e1)
    IN  IF e2.thrown THEN e2
        ELSE _openURL(e2, Or(toURLString(p.url),
                            _getDefaultURL(p, windowLocation, serverURL)), 0)

\* Fault: the timestamp is not compared.
PropsDifferByURLOnly(prev, next) ==
    toURLString(prev.url) # toURLString(next.url)

\* The condition of componentWillReceiveProps: the URL or the timestamp changed.
PropsDiffer(prev, next) ==
    \/ toURLString(prev.url) # toURLString(next.url)
    \/ prev.timestamp # next.timestamp

\* Fault: the default URL is computed from the props before the call.
PropsCallbackStaleDefault(e, job, p) ==
    LET url == toURLString(job.next.url)
    IN  IF PropsDiffer(job.prev, job.next)
        THEN _openURL(e, Or(url, _getDefaultURL(job.prev, windowLocation, serverURL)), job.id)
        ELSE e

\* The callback componentWillReceiveProps registers on _init; p is this.props
\* when the callback runs.
PropsCallback(e, job, p) ==
    LET url == toURLString(job.next.url)
    IN  IF PropsDiffer(job.prev, job.next)
        THEN _openURL(e, Or(url, _getDefaultURL(p, windowLocation, serverURL)), job.id)
        ELSE e

\* What render() returns: null, or the element tree around the route's
\* component, provided with the store.
NoElement == [presented |-> FALSE, store |-> NoStore, component |-> Undefined]
Element(store, component) == [presented |-> TRUE, store |-> store, component |-> component]

\* route.component: undefined unless the route carries a component.
RouteComponent(route) == IF route.tag = "component" THEN route.v ELSE Undefined

\* Fault: render does not look at appAsyncInitialized.
renderWithoutFlag(st) ==
    LET component == RouteComponent(st.route)
    IN  IF ~Falsy(component) THEN Element(st.store, component) ELSE NoElement

\* render(), a function of this.state.
render(st) ==
    LET component == RouteComponent(st.route)
    IN  IF st.appAsyncInitialized /\ ~Falsy(component)
        THEN Element(st.store, component)
        ELSE NoElement

Commit(e) ==
    /\ state' = e.state
    /\ dispatched' = e.dispatched
    /\ errors' = e.errors
    /\ created' = e.created

Now == Eff(state, dispatched, errors, created)

-----------------------------------------------------------------------------
\* Initial state: the state the constructor leaves.

Init ==
    /\ gate \in {"absent", "pending"}
    /\ caught = "pending"
    /\ init = "pending"
    /\ initReactions = <<>>
    /\ microtasks = IF _initStorage(gate) = "pending" THEN <<>> ELSE <<CatchJob>>
    /\ draining = FALSE
    /\ state = [appAsyncInitialized |-> FALSE, route |-> EmptyRoute, store |-> NoStore]
    /\ props \in PropsSet
    /\ serverURL \in ServerURLs
    /\ windowLocation \in WindowLocations
    /\ created = 0
    /\ dispatched = <<>>
    /\ errors = <<>>
    /\ pendingUpdates = <<>>
    /\ navs = <<>>
    /\ redirects = <<>>
    /\ willMount = FALSE
    /\ unmounted = FALSE
    /\ calls = <<>>

-----------------------------------------------------------------------------
\* Host calls

\* Fault: a host call may run while promise reactions are still queued.
HostTurnAnytime == TRUE

\* A host call starts only when the microtask queue has been drained.
HostTurn == ~draining

componentWillMount ==
    /\ HostTurn
    /\ ~willMount
    /\ willMount' = TRUE
    /\ ThenOnInit(MountJob)
    /\ UNCHANGED <<gate, caught, init, draining, state, props, serverURL,
                   windowLocation, created, dispatched, errors, pendingUpdates,
                   navs, redirects, unmounted, calls>>

\* React sets this.props to nextProps once the hook has returned.
componentWillReceiveProps(nextProps) ==
    /\ HostTurn
    /\ willMount /\ ~unmounted
    /\ Len(calls) + Len(navs) < MaxCalls
    /\ calls' = Append(calls, [prev |-> props, next |-> nextProps,
                               early |-> init = "pending"])
    /\ ThenOnInit(PropsJob(Len(calls) + 1, props, nextProps))
    /\ props' = nextProps
    /\ UNCHANGED <<gate, caught, init, draining, state, serverURL,
                   windowLocation, created, dispatched, errors, pendingUpdates,
                   navs, redirects, willMount, unmounted>>

\* Fault: componentWillUnmount drops the reactions that have not run yet.
componentWillUnmountCancelling ==
    /\ HostTurn
    /\ willMount /\ ~unmounted
    /\ unmounted' = TRUE
    /\ Commit(StoreDispatch(Now, Action("appWillUnmount", Undefined, 0)))
    /\ microtasks' = <<>>
    /\ initReactions' = <<>>
    /\ UNCHANGED <<gate, caught, init, draining, props, serverURL,
                   windowLocation, pendingUpdates, navs, redirects,
                   willMount, calls>>

\* Fault: the dispatch of appWillUnmount waits for _init like the other hooks.
componentWillUnmountAfterInit ==
    /\ HostTurn
    /\ willMount /\ ~unmounted
    /\ unmounted' = TRUE
    /\ ThenOnInit(Job("unmount", 0, NoProps, NoProps))
    /\ UNCHANGED <<gate, caught, init, draining, state, props, serverURL,
                   windowLocation, created, dispatched, errors, pendingUpdates,
                   navs, redirects, willMount, calls>>

componentWillUnmount ==
    /\ HostTurn
    /\ willMount /\ ~unmounted
    /\ unmounted' = TRUE
    /\ Commit(StoreDispatch(Now, Action("appWillUnmount", Undefined, 0)))
    /\ UNCHANGED <<gate, caught, init, initReactions, microtasks, draining,
                   props, serverURL, windowLocation, pendingUpdates,
                   navs, redirects, willMount, calls>>

\* window.localStorage._initializing settles.
GateSettle(outcome) ==
    /\ HostTurn
    /\ willMount
    /\ gate = "pending"
    /\ gate' = outcome
    /\ microtasks' = Append(microtasks, CatchJob)
    /\ UNCHANGED <<caught, init, initReactions, draining, state, props,
                   serverURL, windowLocation, created, dispatched, errors,
                   pendingUpdates, navs, redirects, willMount, unmounted, calls>>

-----------------------------------------------------------------------------
\* Microtasks: the promise reactions, run from the head of the queue.

MicrotaskTurn(kind) ==
    /\ willMount
    /\ pendingUpdates = <<>>
    /\ microtasks # <<>>
    /\ Head(microtasks).kind = kind

\* The reaction of _initStorage().catch(...).
RunCatch ==
    /\ MicrotaskTurn("catch")
    /\ caught' = CatchSettle(_initStorage(gate))
    /\ microtasks' = Append(Tail(microtasks), CreateJob)
    /\ draining' = TRUE
    /\ UNCHANGED <<gate, init, initReactions, state, props, serverURL,
                   windowLocation, created, dispatched, errors, pendingUpdates,
                   navs, redirects, willMount, unmounted, calls>>

\* The reaction .then(() => this.setState({ store: this._createStore() })):
\* it runs its callback when the promise before it fulfilled, and passes a
\* rejection on; this._init settles and its reactions are queued in order.
RunCreate ==
    /\ MicrotaskTurn("create")
    /\ IF caught = "fulfilled"
       THEN /\ Commit(CreateCallback(Now))
            /\ init' = "fulfilled"
       ELSE /\ init' = "rejected"
            /\ UNCHANGED <<state, dispatched, errors, created>>
    /\ microtasks' = Tail(microtasks) \o initReactions
    /\ initReactions' = <<>>
    /\ draining' = (microtasks' # <<>>)
    /\ UNCHANGED <<gate, caught, props, serverURL, windowLocation,
                   pendingUpdates, navs, redirects, willMount, unmounted, calls>>

\* A reaction on this._init: its callback runs when _init fulfilled; when
\* _init rejected the derived promise rejects with nothing handling it.
RunOnInit(e) ==
    IF init = "rejected" THEN Commit(Throw(Now, "UnhandledRejection", "_init"))
    ELSE Commit(e)

\* Fault: the callback of componentWillMount uses the props the component had
\* when componentWillMount was called.
RunMountWithPropsAtMount ==
    /\ MicrotaskTurn("mount")
    /\ RunOnInit(MountCallback(Now, IF calls = <<>> THEN props ELSE calls[1].prev))
    /\ microtasks' = Tail(microtasks)
    /\ draining' = (microtasks' # <<>>)
    /\ UNCHANGED <<gate, caught, init, initReactions, props, serverURL,
                   windowLocation, pendingUpdates, navs, redirects,
                   willMount, unmounted, calls>>

RunMount ==
    /\ MicrotaskTurn("mount")
    /\ RunOnInit(MountCallback(Now, props))
    /\ microtasks' = Tail(microtasks)
    /\ draining' = (microtasks' # <<>>)
    /\ UNCHANGED <<gate, caught, init, initReactions, props, serverURL,
                   windowLocation, pendingUpdates, navs, redirects,
                   willMount, unmounted, calls>>

RunProps ==
    /\ MicrotaskTurn("props")
    /\ RunOnInit(PropsCallback(Now, Head(microtasks), props))
    /\ microtasks' = Tail(microtasks)
    /\ draining' = (microtasks' # <<>>)
    /\ UNCHANGED <<gate, caught, init, initReactions, props, serverURL,
                   windowLocation, pendingUpdates, navs, redirects,
                   willMount, unmounted, calls>>

-----------------------------------------------------------------------------
\* _navigate and the React batch

\* A _navigate call: its argument, this.state.route as the call read it,
\* the branch it took and whether the promise it returned has resolved.
NavCall(route, seen, kind, resolved) ==
    [route |-> route, seen |-> seen, kind |-> kind, resolved |-> resolved]

\* Fault: no redirect branch.
NavKindWithoutRedirect(route, current) ==
    IF isEqual(route, current) THEN "noop" ELSE "set"

\* The branch _navigate(route) takes when this.state.route is current.
NavKind(route, current) ==
    IF isEqual(route, current) THEN "noop"
    ELSE IF route.tag = "href" /\ ~Falsy(route.v) THEN "redirect"
    ELSE "set"

\* Fault: the promise _navigate returns is resolved when setState is called,
\* not when the state is committed.
_navigateResolvesAtOnce(route, batched) ==
    /\ HostTurn
    /\ Len(calls) + Len(navs) < MaxCalls
    /\ batched \/ pendingUpdates = <<>>
    /\ LET kind == NavKind(route, state.route)
       IN  /\ navs' = Append(navs, NavCall(route, state.route, kind, TRUE))
           /\ redirects' = IF kind = "redirect" THEN Append(redirects, route.v)
                           ELSE redirects
           /\ state' = IF kind = "set" /\ ~batched
                       THEN [state EXCEPT !.route = route]
                       ELSE state
           /\ pendingUpdates' =
                IF kind = "set" /\ batched
                THEN Append(pendingUpdates, [route |-> route, nav |-> Len(navs) + 1])
                ELSE pendingUpdates
    /\ UNCHANGED <<gate, caught, init, initReactions, microtasks, draining, props,
                   serverURL, windowLocation, created, dispatched, errors,
                   willMount, unmounted, calls>>

\* _navigate(route).  batched: the caller runs inside a React batch, so that
\* setState is queued; a batch that is open stays open until it is flushed.
_navigate(route, batched) ==
    /\ HostTurn
    /\ Len(calls) + Len(navs) < MaxCalls
    /\ batched \/ pendingUpdates = <<>>
    /\ LET kind == NavKind(route, state.route)
           sync == kind # "set" \/ ~batched
       IN  /\ navs' = Append(navs, NavCall(route, state.route, kind, sync))
           /\ redirects' = IF kind = "redirect" THEN Append(redirects, route.v)
                           ELSE redirects
           /\ state' = IF kind = "set" /\ ~batched
                       THEN [state EXCEPT !.route = route]
                       ELSE state
           /\ pendingUpdates' =
                IF kind = "set" /\ batched
                THEN Append(pendingUpdates, [route |-> route, nav |-> Len(navs) + 1])
                ELSE pendingUpdates
    /\ UNCHANGED <<gate, caught, init, initReactions, microtasks, draining, props,
                   serverURL, windowLocation, created, dispatched, errors,
                   willMount, unmounted, calls>>

\* React flushes the batch: the queued updates are applied in order, the
\* state is committed, then the setState callbacks run in order.
FlushBatch ==
    /\ pendingUpdates # <<>>
    /\ state' = [state EXCEPT !.route = pendingUpdates[Len(pendingUpdates)].route]
    /\ navs' = [i \in 1..Len(navs) |->
                  IF \E k \in 1..Len(pendingUpdates) : pendingUpdates[k].nav = i
                  THEN [navs[i] EXCEPT !.resolved = TRUE]
                  ELSE navs[i]]
    /\ pendingUpdates' = <<>>
    /\ UNCHANGED <<gate, caught, init, initReactions, microtasks, draining, props,
                   serverURL, windowLocation, created, dispatched, errors,
                   redirects, willMount, unmounted, calls>>

-----------------------------------------------------------------------------
Next ==
    \/ componentWillMount
    \/ \E nextProps \in PropsSet : componentWillReceiveProps(nextProps)
    \/ componentWillUnmount
    \/ \E outcome \in {"resolved", "rejected"} : GateSettle(outcome)
    \/ RunCatch
    \/ RunCreate
    \/ RunMount
    \/ RunProps
    \/ \E route \in Routes, batched \in BOOLEAN : _navigate(route, batched)
    \/ FlushBatch

Spec == Init /\ [][Next]_vars

\* The event loop runs every queued microtask, React calls componentWillMount
\* on the component it has constructed, and React flushes a batch it opened.
Microtask == RunCatch \/ RunCreate \/ RunMount \/ RunProps

\* Whether activation completes does not depend on the default URL, so the
\* liveness specification starts from one environment.
LiveInit ==
    /\ Init
    /\ windowLocation = NoLocation
    /\ serverURL = Undefined

LiveSpec ==
    /\ LiveInit
    /\ [][Next]_vars
    /\ WF_vars(componentWillMount)
    /\ WF_vars(Microtask)
    /\ WF_vars(FlushBatch)

-----------------------------------------------------------------------------
\* Derived notions used by the properties

IsNavigate(a) == a.type = "appNavigate"

\* The appNavigate actions dispatched so far, in order.
NavEntries == SelectSeq(dispatched, IsNavigate)

\* The ids of the componentWillReceiveProps reactions that have not run yet.
PendingIds ==
    { initReactions[i].id : i \in { j \in DOMAIN initReactions : initReactions[j].kind = "props" } }
    \cup { microtasks[i].id : i \in { j \in DOMAIN microtasks : microtasks[j].kind = "props" } }

\* The reaction of the k-th componentWillReceiveProps call has run.
Ran(k) == k \in 1..Len(calls) /\ k \notin PendingIds

\* The k-th call changed the resolved URL or the timestamp.
Qualifies(k) ==
    \/ toURLString(calls[k].prev.url) # toURLString(calls[k].next.url)
    \/ calls[k].prev.timestamp # calls[k].next.timestamp

ErrorAt(at) == \E i \in DOMAIN errors : errors[i].at = at

-----------------------------------------------------------------------------
\* C1: activation runs its steps in the order storage gate settled, store
\* created and stored, appWillMount dispatched, appAsyncInitialized set,
\* initial appNavigate dispatched, with no step skipped: a store exists only
\* once the gate has settled; the first action ever dispatched is appWillMount,
\* dispatched on the store while appAsyncInitialized was still false; the
\* second is the initial appNavigate, dispatched when the flag was already
\* true; and the flag is true exactly when these two have been dispatched.
C1_ActivationOrder ==
    /\ created > 0 => /\ _initStorage(gate) # "pending"
                      /\ caught = "fulfilled"
                      /\ init = "fulfilled"
    /\ (state.store # NoStore) = (created > 0)
    /\ state.appAsyncInitialized = (dispatched # <<>>)
    /\ dispatched # <<>> =>
          /\ state.store # NoStore
          /\ Len(dispatched) >= 2
          /\ dispatched[1].type = "appWillMount" /\ ~dispatched[1].ready
          /\ dispatched[2].type = "appNavigate" /\ dispatched[2].src = 0
          /\ dispatched[2].ready

C1_Witness ==
    /\ state.appAsyncInitialized
    /\ Len(dispatched) >= 2

\* C2: no appNavigate is dispatched while the store is absent, also for
\* componentWillReceiveProps calls made before the storage gate settled:
\* _openURL never fails on an undefined store, and whenever an appNavigate
\* has been dispatched the store exists.
C2_NavigateNeedsStore ==
    /\ ~ErrorAt("appNavigate")
    /\ NavEntries # <<>> => state.store # NoStore

C2_Witness ==
    \E k \in DOMAIN calls :
        /\ calls[k].early
        /\ \E i \in DOMAIN NavEntries : NavEntries[i].src = k

\* C3: the store is created at most once in a lifetime and, once stored, is
\* never replaced or cleared, whatever calls the host makes.
C3_StoreOnce ==
    /\ [](created <= 1)
    /\ [][state.store # NoStore => state'.store = state.store]_vars

C3_Witness ==
    /\ state.store # NoStore
    /\ unmounted
    /\ calls # <<>>
    /\ navs # <<>>

\* C4: the reaction of every componentWillReceiveProps call runs only after
\* the activation reaction (appWillMount, flag, initial appNavigate) has run;
\* the reactions run in the order of the calls, one per call: the appNavigate
\* actions are the initial one followed by one for each call that changed the
\* URL or the timestamp and has run, in the order of the calls.
C4_PropsDeferredInOrder ==
    /\ \A k \in DOMAIN calls : Ran(k) => state.appAsyncInitialized
    /\ NavEntries # <<>> => NavEntries[1].src = 0
    /\ \A i, j \in DOMAIN NavEntries : i < j => NavEntries[i].src < NavEntries[j].src
    /\ \A k \in DOMAIN calls :
          (\E i \in DOMAIN NavEntries : NavEntries[i].src = k) = (Ran(k) /\ Qualifies(k))
    /\ \A j, k \in DOMAIN calls : (j < k /\ Ran(k)) => Ran(j)

C4_Witness ==
    /\ Len(calls) >= 2
    /\ calls[1].early /\ calls[2].early
    /\ Len(NavEntries) = 3
    /\ NavEntries[2].url = NavEntries[3].url

\* C5: the reaction of a componentWillReceiveProps call (prevProps, nextProps)
\* dispatches exactly one appNavigate when the resolved URLs differ or the
\* timestamps differ, with the resolved new URL as payload, or the default URL
\* when that is empty; it dispatches nothing when both are equal.
C5_PropsChangedDispatch ==
    [][ (microtasks # <<>> /\ Head(microtasks).kind = "props"
            /\ microtasks' = Tail(microtasks))
        => LET job == Head(microtasks)
               was == toURLString(job.prev.url)
               url == toURLString(job.next.url)
           IN  IF was # url \/ job.prev.timestamp # job.next.timestamp
               THEN /\ Len(dispatched') = Len(dispatched) + 1
                    /\ SubSeq(dispatched', 1, Len(dispatched)) = dispatched
                    /\ dispatched'[Len(dispatched')].type = "appNavigate"
                    /\ dispatched'[Len(dispatched')].src = job.id
                    /\ dispatched'[Len(dispatched')].url =
                         IF Falsy(url)
                         THEN _getDefaultURL(props, windowLocation, serverURL)
                         ELSE url
               ELSE dispatched' = dispatched ]_vars

C5_Witness ==
    \E k \in DOMAIN calls :
        /\ toURLString(calls[k].prev.url) = toURLString(calls[k].next.url)
        /\ calls[k].prev.timestamp # calls[k].next.timestamp
        /\ \E i \in DOMAIN NavEntries :
              NavEntries[i].src = k /\ NavEntries[i].url = toURLString(calls[k].next.url)

\* C6: activation completes once the storage promise has settled, fulfilled
\* or rejected, and at once when there is no such promise: the store is then
\* eventually created, appAsyncInitialized eventually true and the initial
\* appNavigate eventually dispatched; a rejection is swallowed: no reaction on
\* _init is ever skipped by a rejection, and the activation reaction never fails.
C6_ActivationCompletes ==
    /\ (_initStorage(gate) # "pending")
          ~> (/\ state.store # NoStore
              /\ state.appAsyncInitialized
              /\ NavEntries # <<>> /\ NavEntries[1].src = 0)
    /\ [](~ErrorAt("_init") /\ ~ErrorAt("componentWillMount"))

C6_Witness ==
    /\ gate = "rejected"
    /\ caught = "fulfilled" /\ init = "fulfilled"
    /\ created = 1
    /\ state.appAsyncInitialized
    /\ NavEntries # <<>>
    /\ errors = <<>>

\* C7 as stated: when appAsyncInitialized becomes true the store exists and
\* the initial appNavigate has already been dispatched, that is, it was
\* dispatched while the flag was still false.
C7_ReadyAfterInitialNavigate ==
    state.appAsyncInitialized =>
        /\ state.store # NoStore
        /\ \E i \in DOMAIN dispatched :
              /\ dispatched[i].type = "appNavigate" /\ dispatched[i].src = 0
              /\ ~dispatched[i].ready

\* C7, amended: appAsyncInitialized changes from false to true once and never
\* returns to false; it changes only when the store exists and appWillMount
\* has been dispatched, and every appNavigate, the initial one included, is
\* dispatched after the change.
C7_ReadyOnce ==
    /\ [][state.appAsyncInitialized => state'.appAsyncInitialized]_vars
    /\ [](state.appAsyncInitialized =>
            /\ state.store # NoStore
            /\ dispatched # <<>>
            /\ dispatched[1].type = "appWillMount" /\ ~dispatched[1].ready
            /\ \A i \in DOMAIN dispatched : i > 1 => dispatched[i].ready)
    /\ [](NavEntries # <<>> => state.appAsyncInitialized)

C7_Witness ==
    /\ state.appAsyncInitialized
    /\ unmounted
    /\ Len(NavEntries) >= 2
    /\ \A i \in DOMAIN NavEntries : NavEntries[i].ready

\* Two consecutive _navigate calls with the same component route.
SameComponentTwice(i) ==
    /\ i \in 1..(Len(navs) - 1)
    /\ navs[i].route.tag = "component"
    /\ navs[i + 1].route = navs[i].route

\* C8 as stated: of two consecutive _navigate calls with deep-equal component
\* routes the second never mutates: it returns a resolved promise without
\* calling setState, also when it is issued before the first is committed.
C8_SecondCallNeverMutates ==
    \A i \in DOMAIN navs :
        SameComponentTwice(i) => navs[i + 1].kind = "noop" /\ navs[i + 1].resolved

\* C8, amended: _navigate calls setState only when its argument is not
\* deep-equal to this.state.route as the call reads it, so that the stored
\* route is only ever a route some such call set; of two consecutive calls
\* with deep-equal component routes, the second issued once the first is
\* committed, the second returns a resolved promise and calls no setState.
C8_RouteDedup ==
    /\ \A i \in DOMAIN navs :
          /\ (navs[i].kind = "noop") = (navs[i].route = navs[i].seen)
          /\ navs[i].kind = "noop" => navs[i].resolved
          /\ (SameComponentTwice(i) /\ navs[i + 1].seen = navs[i].route)
                => navs[i + 1].kind = "noop"
    /\ state.route # EmptyRoute =>
          \E i \in DOMAIN navs :
              /\ navs[i].kind = "set" /\ navs[i].resolved
              /\ navs[i].route = state.route
              /\ navs[i].route # navs[i].seen

C8_Witness ==
    \E i \in DOMAIN navs :
        /\ SameComponentTwice(i)
        /\ navs[i].kind = "set"
        /\ navs[i + 1].kind = "noop"
        /\ state.route = navs[i].route

IsHrefCall(n) == n.route.tag = "href"
IsLeaveCall(n) == n.route.tag = "href" /\ n.route.v # ""

\* The hrefs of the given calls, in order.
Hrefs(ns) == [i \in DOMAIN ns |-> ns[i].route.v]

\* C9 as stated: a { href } route, the empty href included, is never stored:
\* the call redirects to exactly that href and returns a resolved promise.
C9_EveryHrefRedirects ==
    /\ \A i \in DOMAIN navs :
          IsHrefCall(navs[i]) => navs[i].kind = "redirect" /\ navs[i].resolved
    /\ state.route.tag # "href"
    /\ redirects = Hrefs(SelectSeq(navs, IsHrefCall))

\* C9, amended: a { href } route with a non-empty href is never stored,
\* whatever the stored route: the call leaves this.state untouched, assigns
\* exactly that href to window.location.href, once, and returns a resolved
\* promise.
C9_HrefRedirects ==
    /\ [](/\ \A i \in DOMAIN navs :
                IsLeaveCall(navs[i]) => navs[i].kind = "redirect" /\ navs[i].resolved
          /\ ~(state.route.tag = "href" /\ state.route.v # "")
          /\ redirects = Hrefs(SelectSeq(navs, IsLeaveCall)))
    /\ [][Len(redirects') > Len(redirects) =>
            /\ state' = state
            /\ pendingUpdates' = pendingUpdates]_vars

C9_Witness ==
    \E i \in DOMAIN navs :
        /\ navs[i].kind = "redirect"
        /\ navs[i].seen.tag = "component"
        /\ state.route = navs[i].seen
        /\ redirects = <<navs[i].route.v>>

\* C10: componentWillUnmount called while the store is absent fails with an
\* error: no appWillUnmount is dispatched and this.state is left as it was.
C10_UnmountWithoutStore ==
    [][ (~unmounted /\ unmounted' /\ state.store = NoStore)
        => /\ errors' = Append(errors, [kind |-> "TypeError", at |-> "appWillUnmount"])
           /\ dispatched' = dispatched
           /\ state' = state ]_vars

C10_Witness ==
    /\ unmounted
    /\ state.store = NoStore
    /\ ErrorAt("appWillUnmount")
    /\ dispatched = <<>>

\* The place of the appWillUnmount action among the dispatched actions, 0 when
\* none has been dispatched.
UnmountIndex ==
    IF \E i \in DOMAIN dispatched : dispatched[i].type = "appWillUnmount"
    THEN CHOOSE i \in DOMAIN dispatched : dispatched[i].type = "appWillUnmount"
    ELSE 0

\* C11: componentWillUnmount called when the store exists dispatches exactly
\* one appWillUnmount on it within the call: it registers no reaction and
\* waits for none, so that the reactions pending at the call are still
\* pending, behind the dispatch, when the call returns.
C11_UnmountDispatchesAtOnce ==
    [][ (~unmounted /\ unmounted' /\ state.store # NoStore)
        => /\ dispatched' = Append(dispatched,
                 [type |-> "appWillUnmount", url |-> Undefined, src |-> 0,
                  ready |-> state.appAsyncInitialized])
           /\ microtasks' = microtasks
           /\ initReactions' = initReactions
           /\ errors' = errors
           /\ state' = state ]_vars

\* A reaction that was pending when componentWillUnmount was called has
\* dispatched its appNavigate after the appWillUnmount.
C11_Witness ==
    /\ unmounted
    /\ UnmountIndex > 0
    /\ \E i \in DOMAIN dispatched :
          /\ i > UnmountIndex
          /\ dispatched[i].type = "appNavigate" /\ dispatched[i].src >= 1
    /\ Cardinality({i \in DOMAIN dispatched : dispatched[i].type = "appWillUnmount"}) = 1

\* Every reaction registered so far has run: the store is created and stored,
\* appWillMount and the initial appNavigate are dispatched, the flag is set,
\* and every componentWillReceiveProps call whose URL or timestamp changed has
\* dispatched its appNavigate.
ChainCompleted ==
    /\ state.store # NoStore
    /\ \E i \in DOMAIN dispatched : dispatched[i].type = "appWillMount"
    /\ state.appAsyncInitialized
    /\ \E i \in DOMAIN dispatched : IsNavigate(dispatched[i]) /\ dispatched[i].src = 0
    /\ \A k \in 1..Len(calls) :
          (toURLString(calls[k].prev.url) # toURLString(calls[k].next.url)
             \/ calls[k].prev.timestamp # calls[k].next.timestamp)
          => \E i \in DOMAIN dispatched :
                IsNavigate(dispatched[i]) /\ dispatched[i].src = k

\* C12: componentWillUnmount cancels nothing.  The call leaves the reactions
\* that are pending as they are, and once the storage gate has settled they
\* run to completion after the call as they would have without it: the store
\* is created, appWillMount and the appNavigate actions are dispatched and
\* appAsyncInitialized is set.
C12_UnmountCancelsNothing ==
    /\ [][ (~unmounted /\ unmounted')
           => /\ microtasks' = microtasks
              /\ initReactions' = initReactions ]_vars
    /\ (unmounted /\ _initStorage(gate) # "pending") ~> ChainCompleted

\* componentWillUnmount was called before the store existed (its dispatch
\* threw), and the chain has completed since.
C12_Witness ==
    /\ unmounted
    /\ ErrorAt("appWillUnmount")
    /\ UnmountIndex = 0
    /\ ChainCompleted
    /\ calls # <<>>
    /\ \E i \in DOMAIN dispatched : IsNavigate(dispatched[i]) /\ dispatched[i].src >= 1

\* The values of the defaultURL prop: absent, empty, a URL.
DefaultURLs == {Undefined, "", "D"}

\* The first available of the location, the defaultURL prop, the persisted
\* server URL and the constant; a location that is absent or whose string is
\* empty, a prop that is absent or empty and a server URL that is absent are
\* not available.
FirstAvailable(loc, d, s) ==
    IF loc.present /\ loc.href # "" THEN loc.href
    ELSE IF d # Undefined /\ d # "" THEN d
    ELSE IF s # Undefined /\ s # "" THEN s
    ELSE "https://meet.jit.si"

\* C13: _getDefaultURL returns the first available of the environment's
\* location, the defaultURL prop, the persisted server URL and the constant,
\* for every combination of the three: the result is the location whenever
\* there is one, whatever the prop, and the constant only when none of the
\* three is available.  The same holds of the payload of the initial
\* appNavigate when the url prop is absent.
C13_DefaultURLPriority ==
    /\ \A d \in DefaultURLs, loc \in WindowLocations, s \in ServerURLs :
          LET r == _getDefaultURL(Props(NoURL, "t0", d), loc, s)
          IN  /\ r = FirstAvailable(loc, d, s)
              /\ (loc.present /\ loc.href # "") => r = loc.href
              /\ r = "https://meet.jit.si"
                    => /\ ~(loc.present /\ loc.href # "")
                       /\ d \in {Undefined, ""}
                       /\ s = Undefined
    /\ (calls = <<>> /\ props.url = NoURL /\ NavEntries # <<>>)
          => NavEntries[1].url = FirstAvailable(windowLocation, props.defaultURL, serverURL)

\* The initial appNavigate carried the location although the defaultURL prop
\* was set.
C13_Witness ==
    /\ calls = <<>>
    /\ props.url = NoURL /\ props.defaultURL = "D"
    /\ windowLocation = Location("L")
    /\ NavEntries # <<>>
    /\ NavEntries[1].url = "L"

\* C14: when the url prop is a non-empty URL U and componentWillReceiveProps
\* is never called, at most one appNavigate is ever dispatched, and once
\* activation has completed exactly one has been, with U as its payload: the
\* location, the defaultURL prop and the server URL play no part.
C14_InitialNavigateOnce ==
    (calls = <<>> /\ props.url.tag # "absent" /\ props.url.v # "")
        => /\ Len(NavEntries) <= 1
           /\ state.appAsyncInitialized
                 => /\ Len(NavEntries) = 1
                    /\ NavEntries[1].url = props.url.v
                    /\ NavEntries[1].src = 0

\* Activation has completed with a url prop, in an environment that has a
\* location and a server URL.
C14_Witness ==
    /\ calls = <<>>
    /\ props.url = ObjURL("A")
    /\ windowLocation = Location("L")
    /\ serverURL = "S"
    /\ state.appAsyncInitialized
    /\ Len(NavEntries) = 1
    /\ NavEntries[1].url = "A"
    /\ microtasks = <<>> /\ initReactions = <<>>

\* The _navigate calls with a component route that took the setState branch
\* and whose promise resolves in the step.
ResolvingNow(i) ==
    /\ i \in DOMAIN navs'
    /\ navs'[i].kind = "set"
    /\ navs'[i].route.tag = "component"
    /\ navs'[i].resolved
    /\ i \in DOMAIN navs => ~navs[i].resolved

\* C15 as stated: whenever the promise of a _navigate call with a component
\* route r that differs from this.state.route resolves, this.state.route is r,
\* also when other _navigate calls were made before the commit.
C15_ResolvedMeansStored ==
    [][ \A i \in 1..MaxCalls : ResolvingNow(i) => state'.route = navs'[i].route ]_vars

\* C15, amended: the promise of such a call does not resolve while its
\* setState is queued; when it resolves the state has been committed, and
\* this.state.route is r unless a later _navigate call was queued in the same
\* batch, in which case it is the route of the last call queued.
C15_ResolvedAfterCommit ==
    [][ /\ \A i \in 1..MaxCalls :
             ResolvingNow(i) =>
                LET later == { k \in DOMAIN pendingUpdates : pendingUpdates[k].nav > i }
                IN  IF later = {}
                    THEN state'.route = navs'[i].route
                    ELSE state'.route = pendingUpdates[Len(pendingUpdates)].route
        /\ \A k \in DOMAIN pendingUpdates' :
             ~navs'[pendingUpdates'[k].nav].resolved ]_vars

\* Two _navigate calls with different component routes were queued in one
\* batch and have resolved: the stored route is the route of the second.
C15_Witness ==
    /\ Len(navs) = 2
    /\ navs[1].kind = "set" /\ navs[2].kind = "set"
    /\ navs[1].route = ComponentRoute("c1") /\ navs[2].route = ComponentRoute("c2")
    /\ navs[1].seen = EmptyRoute /\ navs[2].seen = EmptyRoute
    /\ navs[1].resolved /\ navs[2].resolved
    /\ pendingUpdates = <<>>
    /\ state.route = ComponentRoute("c2")

\* C16: render presents content only when appAsyncInitialized is true and
\* this.state.route carries a component, and then it presents that component;
\* in every other state it presents nothing.
C16_RenderGuard ==
    /\ render(state).presented
          <=> (state.appAsyncInitialized /\ state.route.tag = "component")
    /\ render(state).presented => render(state).component = state.route.v
    /\ ~render(state).presented => render(state) = NoElement

\* Activation has completed, a component route is stored and render presents
\* it with the store.
C16_Witness ==
    /\ state.appAsyncInitialized
    /\ state.route = ComponentRoute("c2")
    /\ state.store = 1
    /\ render(state) = Element(1, "c2")

\* componentWillReceiveProps was called once, before _init settled, and
\* replaced a URL by a different URL.
ReplacedEarly ==
    /\ Len(calls) = 1
    /\ calls[1].early
    /\ calls[1].prev.url.tag # "absent" /\ calls[1].prev.url.v # ""
    /\ calls[1].next.url.tag # "absent" /\ calls[1].next.url.v # ""
    /\ calls[1].prev.url.v # calls[1].next.url.v

\* C17: the callback of componentWillMount reads this.props.url when it runs.
\* When one componentWillReceiveProps call has replaced the URL X by Y before
\* _init settled, every appNavigate dispatched carries Y, and once both
\* reactions have run the payloads are Y (initial navigation), Y (the call's
\* navigation): X is never dispatched.
C17_InitialNavigateReadsCurrentProps ==
    ReplacedEarly =>
        /\ \A i \in DOMAIN NavEntries : NavEntries[i].url = calls[1].next.url.v
        /\ Len(NavEntries) <= 2
        /\ (state.appAsyncInitialized /\ PendingIds = {})
              => /\ Len(NavEntries) = 2
                 /\ NavEntries[1].src = 0
                 /\ NavEntries[2].src = 1

\* URL A was replaced by B while the storage gate was pending, and the two
\* navigations have been dispatched.
C17_Witness ==
    /\ ReplacedEarly
    /\ calls[1].prev.url = StrURL("A")
    /\ calls[1].next.url = StrURL("B")
    /\ Len(NavEntries) = 2
    /\ NavEntries[1].url = "B" /\ NavEntries[1].src = 0
    /\ NavEntries[2].url = "B" /\ NavEntries[2].src = 1

\* The URL the props p resolve to: the url prop when it is not empty, the
\* default URL otherwise.
ResolvedURL(p) ==
    IF p.url.tag # "absent" /\ p.url.v # "" THEN p.url.v
    ELSE FirstAvailable(windowLocation, p.defaultURL, serverURL)

\* Activation has completed and every componentWillReceiveProps reaction has run.
AllReactionsRan == state.appAsyncInitialized /\ PendingIds = {}

LastNavigate == NavEntries[Len(NavEntries)]

\* C18 as stated: once activation has completed and every reaction has run,
\* the last appNavigate carries the URL the latest props resolve to, whatever
\* the componentWillReceiveProps calls were, calls that change defaultURL only
\* included.
C18_LastNavigateIsLatestProps ==
    AllReactionsRan => LastNavigate.url = ResolvedURL(props)

\* A call made after _init settled that changed neither the URL nor the
\* timestamp but changed defaultURL.
DefaultOnlyCall(k) ==
    /\ ~calls[k].early
    /\ ~(\/ toURLString(calls[k].prev.url) # toURLString(calls[k].next.url)
         \/ calls[k].prev.timestamp # calls[k].next.timestamp)
    /\ calls[k].prev.defaultURL # calls[k].next.defaultURL

\* C18, amended: the same, for the sequences of calls in which no call made
\* after activation changes defaultURL only; such a call dispatches nothing.
C18_LastNavigateFollowsProps ==
    /\ (AllReactionsRan /\ \A k \in DOMAIN calls : ~DefaultOnlyCall(k))
          => LastNavigate.url = ResolvedURL(props)
    /\ \A k \in DOMAIN calls :
          DefaultOnlyCall(k) => \A i \in DOMAIN dispatched : dispatched[i].src # k

\* Two calls have been made and their reactions have run; the last appNavigate
\* is the one of the second call and carries the default URL computed from the
\* defaultURL prop that call brought.
C18_Witness ==
    /\ AllReactionsRan
    /\ Len(calls) = 2
    /\ LastNavigate.src = 2
    /\ props = Props(NoURL, "t0", "D")
    /\ windowLocation = NoLocation
    /\ LastNavigate.url = "D"

MountIndices == { i \in DOMAIN dispatched : dispatched[i].type = "appWillMount" }

\* C19: host calls do not run between the reaction that stores the store and
\* the callback of componentWillMount queued right behind it, so that every
\* appWillUnmount that was dispatched (its dispatch did not throw) comes after
\* appWillMount; and appWillMount is dispatched at most once.
C19_UnmountAfterMount ==
    /\ \A i \in DOMAIN dispatched :
          dispatched[i].type = "appWillUnmount"
             => \E j \in 1..(i - 1) : dispatched[j].type = "appWillMount"
    /\ Cardinality(MountIndices) <= 1
    /\ (state.store # NoStore /\ ~draining) => Cardinality(MountIndices) = 1

\* appWillUnmount has been dispatched, after appWillMount and the initial
\* appNavigate.
C19_Witness ==
    /\ unmounted
    /\ Len(dispatched) = 3
    /\ dispatched[1].type = "appWillMount"
    /\ dispatched[2].type = "appNavigate"
    /\ dispatched[3].type = "appWillUnmount"
    /\ errors = <<>>

\* C20: while the promise of the storage back-end is pending, whatever
\* componentWillMount and componentWillReceiveProps calls are made, the
\* component stays as the constructor left it: no store created or stored,
\* appAsyncInitialized false, no action dispatched, no reaction run, and the
\* route empty as long as nobody calls _navigate.  Nothing but the settling of
\* that promise ends this: there is no timeout.
C20_NothingBeforeGate ==
    gate = "pending" =>
        /\ state.store = NoStore
        /\ created = 0
        /\ ~state.appAsyncInitialized
        /\ dispatched = <<>>
        /\ navs = <<>> => state.route = EmptyRoute
        /\ caught = "pending" /\ init = "pending"
        /\ microtasks = <<>>
        /\ Len(initReactions) = Len(calls) + (IF willMount THEN 1 ELSE 0)

\* componentWillMount and two componentWillReceiveProps calls have been made
\* while the gate is pending; their three reactions wait.
C20_Witness ==
    /\ gate = "pending"
    /\ willMount
    /\ Len(calls) = 2
    /\ Len(initReactions) = 3
    /\ state = [appAsyncInitialized |-> FALSE, route |-> EmptyRoute, store |-> NoStore]
    /\ dispatched = <<>>

=============================================================================
